---- MODULE Spec2Model ----
(***************************************************************************)
(* Bucket relay with CAP enforcement: the connection registry, the AUTH    *)
(* handshake with an embedded capability token, the commons registry, the  *)
(* write/read checks and the subscription fan-out.                         *)
(*                                                                         *)
(* Strings are sequences of characters.  A character is a one-letter TLA+  *)
(* string; an opaque word whose letters the code never inspects (a public  *)
(* key, a tag name, an action name) is written as one character.           *)
(***************************************************************************)
EXTENDS Integers, Sequences, FiniteSets, TLC

\* ------------------------------------------------------------------------
\* JavaScript strings
\* ------------------------------------------------------------------------

\* The value of a missing array element or of a failed optional chain.
Undefined == <<"undefined">>

W(word) == <<word>>

Star == <<"*">>

Colon == <<":">>

\* The initial pubkey of a connection.
Null == <<"null">>

\* The result of tags.find(...) when no tag satisfies the test.  No tag that a
\* test on t[0] selects is empty, so the empty array stands for "none".
NoTag == <<>>

\* `x || dflt`, `if (x)`, `!x` on a string, null or undefined
Truthy(s) == s # Undefined /\ s # Null /\ s # <<>>

\* t[i] of a JavaScript array, i counted from 0
At(t, i) == IF i + 1 <= Len(t) THEN t[i + 1] ELSE Undefined

StartsWith(s, p) == Len(p) <= Len(s) /\ SubSeq(s, 1, Len(p)) = p

EndsWith(s, p) == Len(p) <= Len(s) /\ SubSeq(s, Len(s) - Len(p) + 1, Len(s)) = p

\* s.slice(0, -1)
DropLast(s) == SubSeq(s, 1, Len(s) - 1)

\* index of the first ch in s at or after position i, 0 when there is none
RECURSIVE IndexFrom(_, _, _)
IndexFrom(s, ch, i) ==
  IF i > Len(s) THEN 0
  ELSE IF s[i] = ch THEN i
  ELSE IndexFrom(s, ch, i + 1)

\* s.split(ch)
RECURSIVE Split(_, _)
Split(s, ch) ==
  LET k == IndexFrom(s, ch, 1)
  IN IF k = 0 THEN <<s>>
     ELSE <<SubSeq(s, 1, k - 1)>> \o Split(SubSeq(s, k + 1, Len(s)), ch)

Digits == <<"0", "1", "2", "3", "4", "5", "6", "7", "8", "9">>

\* `${n}` of a non-negative integer
RECURSIVE NumToStr(_)
NumToStr(n) ==
  IF n < 10 THEN <<Digits[n + 1]>>
  ELSE NumToStr(n \div 10) \o <<Digits[(n % 10) + 1]>>

DigitValue(ch) == CHOOSE d \in 0..9 : Digits[d + 1] = ch

IsDigit(ch) == \E d \in 0..9 : Digits[d + 1] = ch

\* parseInt(s): an optional sign, then the value of the leading digits; NaN
\* when there is no digit.  The result is [nan, n].
RECURSIVE ParseDigits(_, _, _)
ParseDigits(s, i, acc) ==
  IF i > Len(s) \/ ~IsDigit(s[i]) THEN acc
  ELSE ParseDigits(s, i + 1, acc * 10 + DigitValue(s[i]))

parseInt(s) ==
  LET neg == Len(s) > 0 /\ s[1] = "-"
      from == IF neg THEN 2 ELSE 1
  IN IF s = Undefined \/ from > Len(s) \/ ~IsDigit(s[from])
     THEN [nan |-> TRUE, n |-> 0]
     ELSE [nan |-> FALSE,
           n |-> IF neg THEN 0 - ParseDigits(s, from, 0) ELSE ParseDigits(s, from, 0)]

\* tags.find(t => t[0] === name)
RECURSIVE FindTagFrom(_, _, _)
FindTagFrom(tags, name, i) ==
  IF i > Len(tags) THEN NoTag
  ELSE IF At(tags[i], 0) = name THEN tags[i]
  ELSE FindTagFrom(tags, name, i + 1)

FindTag(tags, name) == FindTagFrom(tags, name, 1)

\* tags.find(...)?.[1]
TagValue(tags, name) ==
  LET t == FindTag(tags, name)
  IN IF t = NoTag THEN Undefined ELSE At(t, 1)

\* ------------------------------------------------------------------------
\* State
\* ------------------------------------------------------------------------

VARIABLES
  connections,      \* cap-enforcement.js: socketId -> { pubkey, grants, challenge }
  enforcedCommons,  \* cap-enforcement.js: the set of enforced commons references
  gsubs,            \* relay: global subscriptions, in insertion order
  lsubs,            \* relay: per connection, local subscription id -> global id
  events,           \* relay: the event store, in insertion order
  registrations,    \* history: the kind-39002 events handed to processEvent
  sent,             \* the messages the last handler sent, in order: <<socketId, message>>
  last              \* the input the last handler ran on

vars == <<connections, enforcedCommons, gsubs, lsubs, events, registrations, sent, last>>

\* connections.get(socketId) of an id the map does not hold
NoConn == [pubkey |-> Undefined, grants |-> <<>>, challenge |-> Undefined]

AUTH_KIND == 22242

COMMONS_KIND == 39002

\* '39002:'
CommonsPrefix == NumToStr(COMMONS_KIND) \o Colon

\* verifyEvent of nostr-tools: the verdict is a field of the modelled event
verifyEvent(event) == event.sig

\* ------------------------------------------------------------------------
\* Helpers: grant matching
\* ------------------------------------------------------------------------

\* matchesScope that takes any 'kind:' scope for every kind
matchesScopeAnyKind(scope, kind) ==
  IF scope = Star THEN TRUE
  ELSE IF StartsWith(scope, W("kind") \o Colon) THEN TRUE
  ELSE IF scope = NumToStr(kind) THEN TRUE
  ELSE FALSE

matchesScope(scope, kind) ==
  IF scope = Star THEN TRUE
  ELSE IF scope = W("kind") \o Colon \o NumToStr(kind) THEN TRUE
  ELSE IF scope = NumToStr(kind) THEN TRUE
  ELSE FALSE

matchesCommons(grantCommons, targetCommons) ==
  IF grantCommons = Star THEN TRUE
  ELSE IF grantCommons = targetCommons THEN TRUE
  ELSE IF EndsWith(grantCommons, Colon \o Star)
       THEN StartsWith(targetCommons, DropLast(grantCommons))
  ELSE FALSE

\* ------------------------------------------------------------------------
\* Commons management
\* ------------------------------------------------------------------------

\* processEvent that registers whatever the d tag holds
processEventAnyD(event) ==
  IF event.kind = COMMONS_KIND
  THEN LET dTag == TagValue(event.tags, W("d"))
       IN IF dTag # Undefined
          THEN enforcedCommons \cup {CommonsPrefix \o event.pubkey \o Colon \o dTag}
          ELSE enforcedCommons
  ELSE enforcedCommons

\* the enforced set after processEvent(event)
processEvent(event) ==
  IF event.kind = COMMONS_KIND
  THEN LET dTag == TagValue(event.tags, W("d"))
       IN IF Truthy(dTag)
          THEN enforcedCommons \cup {CommonsPrefix \o event.pubkey \o Colon \o dTag}
          ELSE enforcedCommons
  ELSE enforcedCommons

\* ------------------------------------------------------------------------
\* Access control
\* ------------------------------------------------------------------------

\* event.tags.find(t => t[0] === 'a' && t[1]?.startsWith('39002:'))
RECURSIVE FindCommonsTagFrom(_, _)
FindCommonsTagFrom(tags, i) ==
  IF i > Len(tags) THEN NoTag
  ELSE IF At(tags[i], 0) = W("a") /\ At(tags[i], 1) # Undefined
          /\ StartsWith(At(tags[i], 1), CommonsPrefix)
       THEN tags[i]
  ELSE FindCommonsTagFrom(tags, i + 1)

\* a lookup that prefers a reference to an enforced commons
FindEnforcedCommonsTag(event) ==
  LET enforced == SelectSeq(event.tags,
                            LAMBDA t : /\ At(t, 0) = W("a") /\ At(t, 1) # Undefined
                                       /\ At(t, 1) \in enforcedCommons)
  IN IF enforced # <<>> THEN enforced[1] ELSE FindCommonsTagFrom(event.tags, 1)

FindCommonsTag(event) == FindCommonsTagFrom(event.tags, 1)

\* conn.grants.some(g => ...) of canWrite
HasPublishGrant(conn, event, commons) ==
  \E i \in 1..Len(conn.grants) :
    /\ conn.grants[i].action = W("publish")
    /\ matchesScope(conn.grants[i].scope, event.kind)
    /\ matchesCommons(conn.grants[i].commons, commons)

\* conn.grants.some(g => ...) of canRead
HasReadGrant(conn, commons) ==
  \E i \in 1..Len(conn.grants) :
    /\ conn.grants[i].action \in {W("access"), W("publish")}
    /\ matchesCommons(conn.grants[i].commons, commons)

AuthRequired == <<"auth-required:", " authentication required">>

\* canWrite that asks for authentication before it looks at the author
canWriteAuthFirst(socketId, event) ==
  LET commonsTag == FindCommonsTag(event)
      commons == At(commonsTag, 1)
      collectivePubkey == At(Split(commons, ":"), 1)
      conn == connections[socketId]
  IN IF commonsTag = NoTag THEN [ok |-> TRUE, reason |-> Undefined]
     ELSE IF commons \notin enforcedCommons THEN [ok |-> TRUE, reason |-> Undefined]
     ELSE IF conn = NoConn \/ ~Truthy(conn.pubkey)
          THEN [ok |-> FALSE, reason |-> AuthRequired]
     ELSE IF event.pubkey = collectivePubkey THEN [ok |-> TRUE, reason |-> Undefined]
     ELSE IF event.pubkey # conn.pubkey
          THEN [ok |-> FALSE, reason |-> <<"blocked:", " pubkey mismatch">>]
     ELSE IF ~HasPublishGrant(conn, event, commons)
          THEN [ok |-> FALSE, reason |-> <<"blocked:", " no publish grant">>]
     ELSE [ok |-> TRUE, reason |-> Undefined]

\* canWrite that takes every referenced commons for an enforced one
canWriteAlwaysEnforced(socketId, event) ==
  LET commonsTag == FindCommonsTag(event)
      commons == At(commonsTag, 1)
      collectivePubkey == At(Split(commons, ":"), 1)
      conn == connections[socketId]
  IN IF commonsTag = NoTag THEN [ok |-> TRUE, reason |-> Undefined]
     ELSE IF event.pubkey = collectivePubkey THEN [ok |-> TRUE, reason |-> Undefined]
     ELSE IF conn = NoConn \/ ~Truthy(conn.pubkey)
          THEN [ok |-> FALSE, reason |-> AuthRequired]
     ELSE IF event.pubkey # conn.pubkey
          THEN [ok |-> FALSE, reason |-> <<"blocked:", " pubkey mismatch">>]
     ELSE IF ~HasPublishGrant(conn, event, commons)
          THEN [ok |-> FALSE, reason |-> <<"blocked:", " no publish grant">>]
     ELSE [ok |-> TRUE, reason |-> Undefined]

\* { ok, reason } of canWrite(socketId, event)
canWrite(socketId, event) ==
  LET commonsTag == FindCommonsTag(event)
      commons == At(commonsTag, 1)
      collectivePubkey == At(Split(commons, ":"), 1)
      conn == connections[socketId]
  IN IF commonsTag = NoTag THEN [ok |-> TRUE, reason |-> Undefined]
     ELSE IF commons \notin enforcedCommons THEN [ok |-> TRUE, reason |-> Undefined]
     ELSE IF event.pubkey = collectivePubkey THEN [ok |-> TRUE, reason |-> Undefined]
     ELSE IF conn = NoConn \/ ~Truthy(conn.pubkey)
          THEN [ok |-> FALSE, reason |-> AuthRequired]
     ELSE IF event.pubkey # conn.pubkey
          THEN [ok |-> FALSE,
                reason |-> <<"blocked:", " pubkey mismatch (auth=">> \o conn.pubkey
                           \o <<", event=">> \o event.pubkey \o <<")">>]
     ELSE IF ~HasPublishGrant(conn, event, commons)
          THEN [ok |-> FALSE,
                reason |-> <<"blocked:", " no publish grant for kind:">>
                           \o NumToStr(event.kind) \o <<" in ">> \o commons]
     ELSE [ok |-> TRUE, reason |-> Undefined]

\* canRead with the owner exemption of canWrite
canReadOwnerExempt(socketId, event) ==
  LET commonsTag == FindCommonsTag(event)
      commons == At(commonsTag, 1)
      conn == connections[socketId]
  IN IF commonsTag = NoTag THEN TRUE
     ELSE IF commons \notin enforcedCommons THEN TRUE
     ELSE IF conn = NoConn \/ ~Truthy(conn.pubkey) THEN FALSE
     ELSE IF conn.pubkey = At(Split(commons, ":"), 1) THEN TRUE
     ELSE IF ~HasReadGrant(conn, commons) THEN FALSE
     ELSE TRUE

canRead(socketId, event) ==
  LET commonsTag == FindCommonsTag(event)
      commons == At(commonsTag, 1)
      conn == connections[socketId]
  IN IF commonsTag = NoTag THEN TRUE
     ELSE IF commons \notin enforcedCommons THEN TRUE
     ELSE IF conn = NoConn \/ ~Truthy(conn.pubkey) THEN FALSE
     ELSE IF ~HasReadGrant(conn, commons) THEN FALSE
     ELSE TRUE

\* ------------------------------------------------------------------------
\* CAP-AUTH handler
\* ------------------------------------------------------------------------

\* The string value of the AUTH event's `cap` tag is [form, obj]: form says
\* what the string is (capTag[1] missing, the empty string, text JSON.parse
\* rejects, or the JSON text of obj).
NoCap == [id |-> <<>>, tags |-> <<>>, sig |-> FALSE]

CapText(form, obj) == [form |-> form, obj |-> obj]

\* !capTag || !capTag[1]
CapMissing(capTag) ==
  capTag = NoTag \/ capTag[2].form \in {"undefined", "empty"}

\* JSON.parse(capTag[1]) throws
JsonParseThrows(capTag) == capTag[2].form # "json"

\* the grants pushed for cap.tags[i..]
RECURSIVE GrantsFrom(_, _, _)
GrantsFrom(tags, i, commons) ==
  IF i > Len(tags) THEN <<>>
  ELSE IF At(tags[i], 0) = W("cap")
       THEN <<[action |-> At(tags[i], 1),
               scope |-> IF Truthy(At(tags[i], 2)) THEN At(tags[i], 2) ELSE Star,
               commons |-> commons]>> \o GrantsFrom(tags, i + 1, commons)
  ELSE GrantsFrom(tags, i + 1, commons)

parseGrants(cap) ==
  LET commonsTag == FindTag(cap.tags, W("a"))
      commons == IF commonsTag # NoTag /\ Truthy(At(commonsTag, 1))
                 THEN At(commonsTag, 1) ELSE Star
  IN GrantsFrom(cap.tags, 1, commons)

\* the expiry check when the tag holds a number (where 0 is falsy) instead of a
\* string
CapExpiredZeroFalsy(expiry, nowMs) ==
  /\ Truthy(expiry)
  /\ ~parseInt(expiry).nan
  /\ parseInt(expiry).n # 0
  /\ parseInt(expiry).n * 1000 < nowMs

\* Date.now() / 1000 is compared in milliseconds: e < now / 1000 iff e * 1000 < now
CapExpired(expiry, nowMs) ==
  /\ Truthy(expiry)
  /\ ~parseInt(expiry).nan
  /\ parseInt(expiry).n * 1000 < nowMs

\* a challenge check that only asks for a challenge tag
ChallengeMissing(challengeTag, conn) == challengeTag = NoTag

\* !challengeTag || challengeTag[1] !== conn.challenge
ChallengeMismatch(challengeTag, conn) ==
  challengeTag = NoTag \/ At(challengeTag, 1) # conn.challenge

\* a failure that drops the identity and grants of the connection
AuthFailReset(conn, msg) ==
  [ok |-> FALSE, message |-> msg, clock |-> FALSE,
   conn |-> IF conn = NoConn THEN conn ELSE [conn EXCEPT !.pubkey = Null, !.grants = <<>>]]

\* an update that uses up the challenge
AuthenticatedOnce(conn, pubkey, grants) ==
  [conn EXCEPT !.pubkey = pubkey, !.grants = grants, !.challenge = <<"used">>]

\* an update that keeps the grants the connection held
AuthenticatedMerging(conn, pubkey, grants) ==
  [conn EXCEPT !.pubkey = pubkey, !.grants = conn.grants \o grants]

\* { ...conn, pubkey: authEvent.pubkey, grants }
AuthenticatedAs(conn, pubkey, grants) ==
  [conn EXCEPT !.pubkey = pubkey, !.grants = grants]

\* clock: whether the call evaluated Date.now()
AuthFail(conn, msg) == [ok |-> FALSE, message |-> msg, conn |-> conn, clock |-> FALSE]

\* handleAuth with the signature check placed before the kind check
handleAuthSignatureFirst(socketId, authEvent, nowMs) ==
  LET conn == connections[socketId]
      challengeTag == FindTag(authEvent.tags, W("challenge"))
      capTag == FindTag(authEvent.tags, W("cap"))
      cap == capTag[2].obj
      grantee == TagValue(cap.tags, W("p"))
      expiry == TagValue(cap.tags, W("expiry"))
  IN IF conn = NoConn THEN AuthFail(conn, <<"connection not initialized">>)
     ELSE IF ~verifyEvent(authEvent) THEN AuthFail(conn, <<"invalid auth signature">>)
     ELSE IF authEvent.kind # AUTH_KIND
          THEN AuthFail(conn, <<"invalid auth kind", ": expected ">> \o NumToStr(AUTH_KIND)
                              \o <<", got ">> \o NumToStr(authEvent.kind))
     ELSE IF ChallengeMismatch(challengeTag, conn)
          THEN AuthFail(conn, <<"invalid or missing challenge">>)
     ELSE IF CapMissing(capTag)
          THEN [ok |-> TRUE, message |-> <<"authenticated">>, clock |-> FALSE,
                conn |-> AuthenticatedAs(conn, authEvent.pubkey, <<>>)]
     ELSE IF JsonParseThrows(capTag) THEN AuthFail(conn, <<"invalid cap JSON">>)
     ELSE IF ~verifyEvent(cap) THEN AuthFail(conn, <<"invalid cap signature">>)
     ELSE IF grantee # authEvent.pubkey
          THEN AuthFail(conn, <<"grantee mismatch", ": cap=">> \o grantee
                              \o <<", auth=">> \o authEvent.pubkey)
     ELSE IF CapExpired(expiry, nowMs)
          THEN [AuthFail(conn, <<"cap expired">>) EXCEPT !.clock = TRUE]
     ELSE [ok |-> TRUE, message |-> <<"authenticated">>, clock |-> Truthy(expiry),
           conn |-> AuthenticatedAs(conn, authEvent.pubkey, parseGrants(cap))]

\* { ok, message } of handleAuth(socketId, authEvent) when Date.now() is nowMs,
\* with the record the connections map holds for socketId afterwards
handleAuth(socketId, authEvent, nowMs) ==
  LET conn == connections[socketId]
      challengeTag == FindTag(authEvent.tags, W("challenge"))
      capTag == FindTag(authEvent.tags, W("cap"))
      cap == capTag[2].obj
      grantee == TagValue(cap.tags, W("p"))
      expiry == TagValue(cap.tags, W("expiry"))
  IN IF conn = NoConn THEN AuthFail(conn, <<"connection not initialized">>)
     ELSE IF authEvent.kind # AUTH_KIND
          THEN AuthFail(conn, <<"invalid auth kind", ": expected ">> \o NumToStr(AUTH_KIND)
                              \o <<", got ">> \o NumToStr(authEvent.kind))
     ELSE IF ~verifyEvent(authEvent) THEN AuthFail(conn, <<"invalid auth signature">>)
     ELSE IF ChallengeMismatch(challengeTag, conn)
          THEN AuthFail(conn, <<"invalid or missing challenge">>)
     ELSE IF CapMissing(capTag)
          THEN [ok |-> TRUE, message |-> <<"authenticated">>, clock |-> FALSE,
                conn |-> AuthenticatedAs(conn, authEvent.pubkey, <<>>)]
     ELSE IF JsonParseThrows(capTag) THEN AuthFail(conn, <<"invalid cap JSON">>)
     ELSE IF ~verifyEvent(cap) THEN AuthFail(conn, <<"invalid cap signature">>)
     ELSE IF grantee # authEvent.pubkey
          THEN AuthFail(conn, <<"grantee mismatch", ": cap=">> \o grantee
                              \o <<", auth=">> \o authEvent.pubkey)
     ELSE IF CapExpired(expiry, nowMs)
          THEN [AuthFail(conn, <<"cap expired">>) EXCEPT !.clock = TRUE]
     ELSE [ok |-> TRUE, message |-> <<"authenticated">>, clock |-> Truthy(expiry),
           conn |-> AuthenticatedAs(conn, authEvent.pubkey, parseGrants(cap))]

\* ------------------------------------------------------------------------
\* JavaScript Map: a sequence of [key, val] entries in insertion order
\* ------------------------------------------------------------------------

MapIndex(m, k) == IF \E i \in 1..Len(m) : m[i].key = k
                  THEN CHOOSE i \in 1..Len(m) : m[i].key = k
                  ELSE 0

MapHas(m, k) == MapIndex(m, k) # 0

\* m.set(k, v): a held key keeps its place
MapSet(m, k, v) ==
  IF MapHas(m, k) THEN [m EXCEPT ![MapIndex(m, k)] = [key |-> k, val |-> v]]
  ELSE Append(m, [key |-> k, val |-> v])

\* m.delete(k)
MapDelete(m, k) == SelectSeq(m, LAMBDA e : e.key # k)

MapKeys(m) == {m[i].key : i \in 1..Len(m)}

\* ------------------------------------------------------------------------
\* Relay: subscriptions and fan-out
\* ------------------------------------------------------------------------

\* matchFilters of nostr-tools on the modelled filters: a filter is null, is
\* unconstrained or lists the kinds it selects; the filters are tried in order
\* and the list matches when one of them does
\* matchFilter on one filter object
matchFilter(filter, event) == filter.any \/ event.kind \in filter.kinds

\* matchFilters reads a property of a filter that is null: a TypeError, unless
\* an earlier filter of the list matched
matchFiltersThrows(filters, event) ==
  \E i \in 1..Len(filters) :
    /\ filters[i].null
    /\ \A j \in 1..(i - 1) : ~filters[j].null /\ ~matchFilter(filters[j], event)

matchFilters(filters, event) ==
  \E i \in 1..Len(filters) :
    /\ ~filters[i].null /\ matchFilter(filters[i], event)
    /\ \A j \in 1..(i - 1) : ~filters[j].null

\* a global id that leaves out the socket
GSubIdLocal(socketId, lsubid) == lsubid

\* `${socketId}:${lsubid}`
GSubId(socketId, lsubid) == socketId \o Colon \o lsubid

\* makecb without the read check
makecbFilterOnly(cb, event) ==
  IF matchFilters(cb.filters, event)
  THEN << <<cb.socketId, <<"EVENT", cb.lsubid, event>>>> >>
  ELSE <<>>

\* what the callback makecb(lsubid, filters) of socketId sends for event
makecb(cb, event) ==
  IF matchFilters(cb.filters, event) /\ canRead(cb.socketId, event)
  THEN << <<cb.socketId, <<"EVENT", cb.lsubid, event>>>> >>
  ELSE <<>>

\* for (const cb of gsubs.values()) cb(event), from entry i on, up to the
\* first callback that throws
RECURSIVE NotifyFrom(_, _)
NotifyFrom(i, event) ==
  IF i > Len(gsubs) THEN <<>>
  ELSE IF matchFiltersThrows(gsubs[i].val.filters, event) THEN <<>>
  ELSE makecb(gsubs[i].val, event) \o NotifyFrom(i + 1, event)

\* a callback of the loop throws, which ends the loop and the handler
NotifyThrows(event) ==
  \E i \in 1..Len(gsubs) : matchFiltersThrows(gsubs[i].val.filters, event)

\* a replay that sends the newest stored event first
RECURSIVE ReplayNewestFirst(_, _, _, _)
ReplayNewestFirst(i, socketId, lsubid, filters) ==
  IF i > Len(events) THEN <<>>
  ELSE ReplayNewestFirst(i + 1, socketId, lsubid, filters)
       \o (IF matchFilters(filters, events[i].val) /\ canRead(socketId, events[i].val)
           THEN << <<socketId, <<"EVENT", lsubid, events[i].val>>>> >>
           ELSE <<>>)

\* the historical events a REQ of socketId sends, from store entry i on, up to
\* the first event on which matchFilters throws
RECURSIVE ReplayFrom(_, _, _, _)
ReplayFrom(i, socketId, lsubid, filters) ==
  IF i > Len(events) THEN <<>>
  ELSE IF matchFiltersThrows(filters, events[i].val) THEN <<>>
  ELSE (IF matchFilters(filters, events[i].val) /\ canRead(socketId, events[i].val)
        THEN << <<socketId, <<"EVENT", lsubid, events[i].val>>>> >>
        ELSE <<>>) \o ReplayFrom(i + 1, socketId, lsubid, filters)

\* matchFilters throws in the replay loop, which ends the loop and the handler
ReplayThrows(filters) ==
  \E i \in 1..Len(events) : matchFiltersThrows(filters, events[i].val)

\* a cleanup that deletes the first local subscription only
DeleteFirstSub(g, l, i) ==
  IF i > Len(l) THEN g ELSE MapDelete(g, l[i].val)

\* for (const [subid, gsubid] of lsubs.entries()) gsubs.delete(gsubid)
RECURSIVE DeleteSubs(_, _, _)
DeleteSubs(g, l, i) ==
  IF i > Len(l) THEN g ELSE DeleteSubs(MapDelete(g, l[i].val), l, i + 1)

\* ------------------------------------------------------------------------
\* Bounds and input universes
\* ------------------------------------------------------------------------

\* the event store holds at most MaxStored events before the timer clears it
MaxStored == 1

\* Date.now() ranges over 500 ms .. MaxClock * 500 ms
MaxClock == 5

\* expiry tags carry the seconds 0 .. MaxExpiry
MaxExpiry == 2

Times == {k * 500 : k \in 1..MaxClock}

Sockets == {W("p"), W("q")}

Challenges == {W("c1"), W("c2")}

SubIds == {W("x")}

\* outside the handshake specification each socket id gets one challenge
CoreChallenge(socketId) == IF socketId = W("p") THEN W("c1") ELSE W("c2")

PkA == W("A")

PkB == W("B")

CommonsRef(owner, name) == CommonsPrefix \o owner \o Colon \o name

RefAg == CommonsRef(PkA, W("g"))

RefAh == CommonsRef(PkA, W("h"))

RefBg == CommonsRef(PkB, W("g"))

WildA == CommonsRef(PkA, Star)

Tag2(name, value) == <<W(name), value>>

Ev(id, pubkey, kind, tags, sig) ==
  [id |-> W(id), pubkey |-> pubkey, kind |-> kind, tags |-> tags, sig |-> sig]

\* the events clients publish: registrations (r1 registers RefAg, r2 registers
\* RefBg and is tagged to it, r3 has an empty d tag, r4 a bad signature, r5 is
\* tagged to RefAg) and events to a commons that differ in author, kind and tags
Events ==
  { Ev("r1", PkA, COMMONS_KIND, <<Tag2("d", W("g"))>>, TRUE),
    Ev("r2", PkB, COMMONS_KIND, <<Tag2("d", W("g")), Tag2("a", RefBg)>>, TRUE),
    Ev("r3", PkA, COMMONS_KIND, <<Tag2("d", <<>>)>>, TRUE),
    Ev("r4", PkA, COMMONS_KIND, <<Tag2("d", W("h"))>>, FALSE),
    Ev("r5", PkB, COMMONS_KIND, <<Tag2("d", W("h")), Tag2("a", RefAg)>>, TRUE),
    Ev("e1", PkB, 1, <<Tag2("a", RefAg)>>, TRUE),
    Ev("e2", PkB, 2, <<Tag2("a", RefAg)>>, TRUE),
    Ev("e3", PkA, 1, <<Tag2("a", RefAg)>>, TRUE),
    Ev("e4", PkB, 1, <<>>, TRUE),
    Ev("e5", PkB, 1, <<Tag2("a", RefAh), Tag2("a", RefAg)>>, TRUE),
    Ev("e6", PkA, 1, <<Tag2("a", RefBg)>>, TRUE) }

\* the events of the relay specification
CoreEvents == {e \in Events : e.id \in {W("r1"), W("r2"), W("r4"), W("e1"), W("e4")}}

Filter(any, kinds) == [any |-> any, kinds |-> kinds, null |-> FALSE]

\* the filter of ["REQ", id, null]
NullFilter == [any |-> FALSE, kinds |-> {}, null |-> TRUE]

\* the filter lists of REQ messages: one unconstrained filter, one filter by kind
FilterLists == { <<Filter(TRUE, {})>>, <<Filter(FALSE, {1})>> }

\* capability tokens; the id stands for the hash of the content
Token(id, tags, sig) == [id |-> id, tags |-> tags, sig |-> sig]

CapScoped(action, scope) == <<W("cap"), W(action), scope>>

CapUnscoped(action) == <<W("cap"), W(action)>>

Kind1 == W("kind") \o Colon \o NumToStr(1)

Kind2 == W("kind") \o Colon \o NumToStr(2)

\* a tag that may be absent: no tag when the value is Undefined
OptTag(name, value) == IF value = Undefined THEN <<>> ELSE <<Tag2(name, value)>>

SigWord(sig) == IF sig THEN W("ok") ELSE W("bad")

TokenPublish ==
  Token(W("pub"), <<Tag2("p", PkB), Tag2("a", WildA), CapScoped("publish", Kind1)>>, TRUE)

TokenAccess ==
  Token(W("acc"), <<Tag2("p", PkB), Tag2("a", RefAg), CapUnscoped("access")>>, TRUE)

\* the values of expiry tags: seconds, the empty string, a string that is no number
ExpiryValues == {<<>>, W("x")} \cup {NumToStr(k) : k \in 0..MaxExpiry}

\* the tokens of the handshake specification: the publish token for B with
\* every expiry; an access token with every grantee and signature verdict; a
\* token with two grants and no commons tag; a token with no grant
HandshakeTokens ==
  { TokenPublish }
  \cup { Token(W("pub") \o W("exp") \o x,
               <<Tag2("p", PkB), Tag2("a", WildA), Tag2("expiry", x),
                 CapScoped("publish", Kind1)>>, TRUE)
         : x \in ExpiryValues }
  \cup { Token(W("acc") \o g \o SigWord(sg),
               OptTag("p", g) \o <<Tag2("a", RefAg), CapUnscoped("access")>>, sg)
         : g \in {Undefined, PkA, PkB}, sg \in BOOLEAN }
  \cup { Token(W("two"), <<Tag2("p", PkB), CapScoped("publish", NumToStr(1)),
                           CapUnscoped("access")>>, TRUE),
         Token(W("none"), <<Tag2("p", PkB)>>, TRUE) }

\* the tokens of the access specification, each with one grant for B: publish
\* with every scope, publish with every commons reference, and the actions
\* access and delete
AccessTokens ==
  { Token(W("scope") \o sc,
          <<Tag2("p", PkB), Tag2("a", WildA), CapScoped("publish", sc)>>, TRUE)
      : sc \in {Star, NumToStr(1), Kind1, Kind2} }
  \cup { Token(W("commons") \o c,
               <<Tag2("p", PkB), Tag2("a", c), CapScoped("publish", Kind1)>>, TRUE)
      : c \in {Star, RefAg, RefAh} }
  \cup { Token(W(act), <<Tag2("p", PkB), Tag2("a", RefAg), CapUnscoped(act)>>, TRUE)
      : act \in {"access", "delete"} }

\* what an AUTH event carries for a token: no cap tag, a cap tag whose value
\* is missing, empty or unparsable, or the JSON text of a token
NoCapTag == [id |-> W("nocap"), tags |-> <<>>]

CapForm(form) == [id |-> W(form), tags |-> <<<<W("cap"), CapText(form, NoCap)>>>>]

CapJson(tok) == [id |-> tok.id, tags |-> <<<<W("cap"), CapText("json", tok)>>>>]

CapsOf(tokens) ==
  {NoCapTag, CapForm("undefined"), CapForm("empty"), CapForm("garbage")}
  \cup {CapJson(tok) : tok \in tokens}

\* An AUTH event: its author, kind, signature verdict, the challenge it
\* answers (Undefined: no challenge tag) and its cap.  The id stands for the
\* hash of the content.
Auth(pubkey, kind, sig, challenge, cap) ==
  [id |-> pubkey \o NumToStr(kind) \o SigWord(sig) \o challenge \o cap.id,
   pubkey |-> pubkey, kind |-> kind, sig |-> sig,
   tags |-> OptTag("challenge", challenge) \o cap.tags]

\* the AUTH events of the relay specification: well-formed, signed by B,
\* with no token or one of two tokens
CoreAuthEvents(challenge) ==
  { Auth(PkB, AUTH_KIND, TRUE, challenge, cap)
      : cap \in {NoCapTag, CapJson(TokenPublish), CapJson(TokenAccess)} }

\* the AUTH events of the handshake specification, sent to socket p: with no
\* token and with the publish token, every author, kind, signature verdict and
\* challenge; with each other cap, every author answering p's challenge
AuthEvents ==
  { Auth(pk, kind, sg, ch, cap)
      : pk \in {PkA, PkB}, kind \in {AUTH_KIND, 1}, sg \in BOOLEAN,
        ch \in {Undefined} \cup Challenges, cap \in {NoCapTag, CapJson(TokenPublish)} }
  \cup
  { Auth(pk, AUTH_KIND, TRUE, CoreChallenge(W("p")), cap)
      : pk \in {PkA, PkB}, cap \in CapsOf(HandshakeTokens) }

\* those whose token carries a non-empty expiry tag
ExpiringAuthEvents ==
  { a \in AuthEvents :
      /\ FindTag(a.tags, W("cap")) # NoTag
      /\ Truthy(TagValue(FindTag(a.tags, W("cap"))[2].obj.tags, W("expiry"))) }

\* the AUTH events of the access specification, answering p's challenge: A
\* and B without a token, B with each access token
AccessAuthEvents ==
  { Auth(pk, AUTH_KIND, TRUE, CoreChallenge(W("p")), NoCapTag) : pk \in {PkA, PkB} }
  \cup
  { Auth(PkB, AUTH_KIND, TRUE, CoreChallenge(W("p")), CapJson(tok)) : tok \in AccessTokens }

\* ------------------------------------------------------------------------
\* Handlers
\* ------------------------------------------------------------------------

NoArg == <<>>

Input(op, socketId, arg, nowMs) ==
  [op |-> op, socketId |-> socketId, arg |-> arg, now |-> nowMs]

Init ==
  /\ connections = [s \in Sockets |-> NoConn]
  /\ enforcedCommons = {}
  /\ gsubs = <<>>
  /\ lsubs = [s \in Sockets |-> <<>>]
  /\ events = <<>>
  /\ registrations = {}
  /\ sent = <<>>
  /\ last = Input("start", <<>>, NoArg, 0)

\* a connection handler that stores the challenge and does not send it
ConnectSilent(socketId, challenge) ==
  /\ connections[socketId] = NoConn
  /\ connections' = [connections EXCEPT
       ![socketId] = [pubkey |-> Null, grants |-> <<>>, challenge |-> challenge]]
  /\ lsubs' = [lsubs EXCEPT ![socketId] = <<>>]
  /\ sent' = <<>>
  /\ last' = Input("connect", socketId, NoArg, 0)
  /\ UNCHANGED <<enforcedCommons, gsubs, events, registrations>>

\* wss.on('connection'): a socket connects under an id no open socket has
Connect(socketId, challenge) ==
  /\ connections[socketId] = NoConn
  /\ connections' = [connections EXCEPT
       ![socketId] = [pubkey |-> Null, grants |-> <<>>, challenge |-> challenge]]
  /\ lsubs' = [lsubs EXCEPT ![socketId] = <<>>]
  /\ sent' = << <<socketId, <<"AUTH", challenge>>>> >>
  /\ last' = Input("connect", socketId, NoArg, 0)
  /\ UNCHANGED <<enforcedCommons, gsubs, events, registrations>>

\* socket.on('message'), msgType === 'AUTH'
OnAuth(socketId, authEvent, nowMs) ==
  LET result == handleAuth(socketId, authEvent, nowMs)
  IN /\ connections[socketId] # NoConn
     /\ connections' = [connections EXCEPT ![socketId] = result.conn]
     /\ sent' = << <<socketId, <<"OK", authEvent.id, result.ok, result.message>>>> >>
     /\ last' = Input("AUTH", socketId, authEvent, IF result.clock THEN nowMs ELSE 0)
     /\ UNCHANGED <<enforcedCommons, gsubs, lsubs, events, registrations>>

InvalidSignature == <<"invalid:", " signature verification failed">>

\* an EVENT handler that registers a commons before the write check
OnEventRegisterFirst(socketId, event) ==
  LET writeCheck == canWrite(socketId, event)
  IN /\ connections[socketId] # NoConn
     /\ last' = Input("EVENT", socketId, event, 0)
     /\ UNCHANGED <<connections, gsubs, lsubs>>
     /\ IF ~verifyEvent(event)
        THEN /\ sent' = << <<socketId, <<"OK", event.id, FALSE, InvalidSignature>>>> >>
             /\ UNCHANGED <<enforcedCommons, events, registrations>>
        ELSE IF ~writeCheck.ok
        THEN /\ sent' = << <<socketId, <<"OK", event.id, FALSE, writeCheck.reason>>>> >>
             /\ enforcedCommons' = processEvent(event)
             /\ UNCHANGED <<events, registrations>>
        ELSE /\ enforcedCommons' = processEvent(event)
             /\ registrations' = IF event.kind = COMMONS_KIND
                                 THEN registrations \cup {event} ELSE registrations
             /\ events' = MapSet(events, event.id, event)
             /\ sent' = NotifyFrom(1, event)'
                        \o (IF NotifyThrows(event) THEN <<>>
                            ELSE << <<socketId, <<"OK", event.id, TRUE, <<>>>>>> >>)

\* socket.on('message'), msgType === 'EVENT'
OnEvent(socketId, event) ==
  LET writeCheck == canWrite(socketId, event)
  IN /\ connections[socketId] # NoConn
     /\ last' = Input("EVENT", socketId, event, 0)
     /\ UNCHANGED <<connections, gsubs, lsubs>>
     /\ IF ~verifyEvent(event)
        THEN /\ sent' = << <<socketId, <<"OK", event.id, FALSE, InvalidSignature>>>> >>
             /\ UNCHANGED <<enforcedCommons, events, registrations>>
        ELSE IF ~writeCheck.ok
        THEN /\ sent' = << <<socketId, <<"OK", event.id, FALSE, writeCheck.reason>>>> >>
             /\ UNCHANGED <<enforcedCommons, events, registrations>>
        ELSE /\ enforcedCommons' = processEvent(event)
             /\ registrations' = IF event.kind = COMMONS_KIND
                                 THEN registrations \cup {event} ELSE registrations
             /\ events' = MapSet(events, event.id, event)
             /\ sent' = NotifyFrom(1, event)'
                        \o (IF NotifyThrows(event) THEN <<>>
                            ELSE << <<socketId, <<"OK", event.id, TRUE, <<>>>>>> >>)

\* socket.on('message'), msgType === 'REQ'
OnReq(socketId, lsubid, filters) ==
  LET gsubid == GSubId(socketId, lsubid)
  IN /\ connections[socketId] # NoConn
     /\ lsubs' = [lsubs EXCEPT ![socketId] = MapSet(@, lsubid, gsubid)]
     /\ gsubs' = MapSet(gsubs, gsubid,
                        [lsubid |-> lsubid, filters |-> filters, socketId |-> socketId])
     /\ sent' = ReplayFrom(1, socketId, lsubid, filters)
                \o (IF ReplayThrows(filters) THEN <<>>
                    ELSE << <<socketId, <<"EOSE", lsubid>>>> >>)
     /\ last' = Input("REQ", socketId, <<lsubid, filters>>, 0)
     /\ UNCHANGED <<connections, enforcedCommons, events, registrations>>

\* socket.on('message') on ["AUTH"] or ["EVENT"]: message[1] is undefined,
\* reading its kind throws, and the catch clause logs the error
OnNoPayload(socketId, msgType) ==
  /\ connections[socketId] # NoConn
  /\ sent' = <<>>
  /\ last' = Input("malformed", socketId, msgType, 0)
  /\ UNCHANGED <<connections, enforcedCommons, gsubs, lsubs, events, registrations>>

\* socket.on('message'), msgType === 'CLOSE'
OnClose(socketId, lsubid) ==
  /\ connections[socketId] # NoConn
  /\ lsubs' = [lsubs EXCEPT ![socketId] = MapDelete(@, lsubid)]
  /\ gsubs' = MapDelete(gsubs, GSubId(socketId, lsubid))
  /\ sent' = <<>>
  /\ last' = Input("CLOSE", socketId, lsubid, 0)
  /\ UNCHANGED <<connections, enforcedCommons, events, registrations>>

\* socket.on('close')
Disconnect(socketId) ==
  /\ connections[socketId] # NoConn
  /\ gsubs' = DeleteSubs(gsubs, lsubs[socketId], 1)
  /\ lsubs' = [lsubs EXCEPT ![socketId] = <<>>]
  /\ connections' = [connections EXCEPT ![socketId] = NoConn]
  /\ sent' = <<>>
  /\ last' = Input("disconnect", socketId, NoArg, 0)
  /\ UNCHANGED <<enforcedCommons, events, registrations>>

\* a timer that clears the commons registry with the store
ClearEventsAndCommons ==
  /\ events' = <<>>
  /\ enforcedCommons' = {}
  /\ sent' = <<>>
  /\ last' = Input("clear", <<>>, NoArg, 0)
  /\ UNCHANGED <<connections, gsubs, lsubs, registrations>>

\* setInterval(() => events.clear(), TTL)
ClearEvents ==
  /\ events' = <<>>
  /\ sent' = <<>>
  /\ last' = Input("clear", <<>>, NoArg, 0)
  /\ UNCHANGED <<connections, enforcedCommons, gsubs, lsubs, registrations>>

\* ------------------------------------------------------------------------
\* The relay
\* ------------------------------------------------------------------------

\* the timer clears the store before it holds more than limit events: the
\* publish is one the store has room for
Fits(socketId, event, limit) ==
  \/ ~verifyEvent(event)
  \/ ~canWrite(socketId, event).ok
  \/ MapHas(events, event.id)
  \/ Len(events) < limit

Connects == \E s \in Sockets : Connect(s, CoreChallenge(s))

\* a client answers the challenge it was sent
Auths == \E s \in Sockets : \E a \in CoreAuthEvents(connections[s].challenge) : OnAuth(s, a, 500)

Publishes ==
  \E s \in Sockets, e \in CoreEvents : Fits(s, e, MaxStored) /\ OnEvent(s, e)

Reqs == \E s \in Sockets, l \in SubIds, f \in FilterLists : OnReq(s, l, f)

Closes == \E s \in Sockets, l \in SubIds : OnClose(s, l)

Disconnects == \E s \in Sockets : Disconnect(s)

Next ==
  \/ Connects
  \/ Auths
  \/ Publishes
  \/ Reqs
  \/ Closes
  \/ Disconnects
  \/ ClearEvents

Spec == Init /\ [][Next]_vars

\* ------------------------------------------------------------------------
\* The handshake: two connections, every AUTH event on one of them
\* ------------------------------------------------------------------------

\* the calls that read the clock, at every time
HandshakeAuths ==
  \/ \E a \in AuthEvents : OnAuth(W("p"), a, 500)
  \/ \E a \in ExpiringAuthEvents, t \in Times \ {500} :
       /\ handleAuth(W("p"), a, t).clock
       /\ OnAuth(W("p"), a, t)

NextAuth ==
  \/ Connects
  \/ HandshakeAuths
  \/ Disconnects

SpecAuth == Init /\ [][NextAuth]_vars

\* ------------------------------------------------------------------------
\* Access control: one connection with any grant, every event
\* ------------------------------------------------------------------------

AccessAuths == \E a \in AccessAuthEvents : OnAuth(W("p"), a, 500)

AccessPublishes == \E e \in Events : Fits(W("p"), e, MaxStored) /\ OnEvent(W("p"), e)

AccessConnects == Connect(W("p"), CoreChallenge(W("p")))

NextAccess ==
  \/ AccessConnects
  \/ AccessAuths
  \/ AccessPublishes
  \/ Disconnects
  \/ ClearEvents

SpecAccess == Init /\ [][NextAccess]_vars

\* ------------------------------------------------------------------------
\* Replay: one connection, a store of several events
\* ------------------------------------------------------------------------

\* a registration of RefAg, an event of that commons and an event of none
ReplayEvents == {e \in Events : e.id \in {W("r1"), W("e3"), W("e4")}}

\* filter lists of one and of two filters
ReplayFilterLists ==
  FilterLists \cup { <<Filter(FALSE, {COMMONS_KIND}), Filter(FALSE, {1})>> }

ReplayAuths ==
  OnAuth(W("p"), Auth(PkB, AUTH_KIND, TRUE, CoreChallenge(W("p")), CapJson(TokenAccess)), 500)

ReplayPublishes ==
  \E e \in ReplayEvents : Fits(W("p"), e, MaxStored + 1) /\ OnEvent(W("p"), e)

ReplayReqs == \E l \in SubIds, f \in ReplayFilterLists : OnReq(W("p"), l, f)

NextReplay ==
  \/ AccessConnects
  \/ ReplayAuths
  \/ ReplayPublishes
  \/ ReplayReqs
  \/ Disconnects
  \/ ClearEvents

SpecReplay == Init /\ [][NextReplay]_vars

\* ------------------------------------------------------------------------
\* Subscriptions: two connections, several subscriptions, malformed input
\* ------------------------------------------------------------------------

\* a registration of RefAg, an event of that commons, a registration by B
\* tagged to RefAg and a registration with a bad signature
SubsEvents == {e \in Events : e.id \in {W("r1"), W("e3"), W("r5"), W("r4")}}

\* p subscribes under x with well-formed filters and under y with a null
\* filter; q subscribes under x with well-formed filters
SubsRequests ==
  { <<W("p"), W("x"), f>> : f \in FilterLists }
  \cup { <<W("p"), W("y"), <<NullFilter>>>> }
  \cup { <<W("q"), W("x"), f>> : f \in FilterLists }

SubsAuths ==
  OnAuth(W("q"), Auth(PkB, AUTH_KIND, TRUE, CoreChallenge(W("q")), CapJson(TokenAccess)), 500)

SubsPublishes ==
  \E s \in Sockets, e \in SubsEvents : Fits(s, e, MaxStored) /\ OnEvent(s, e)

SubsReqs == \E r \in SubsRequests : OnReq(r[1], r[2], r[3])

SubsCloses == \E r \in SubsRequests : OnClose(r[1], r[2])

NoPayloads == \E s \in Sockets, t \in {"AUTH", "EVENT"} : OnNoPayload(s, t)

NextSubs ==
  \/ Connects
  \/ SubsAuths
  \/ SubsPublishes
  \/ SubsReqs
  \/ SubsCloses
  \/ NoPayloads
  \/ Disconnects
  \/ ClearEvents

SpecSubs == Init /\ [][NextSubs]_vars

\* ------------------------------------------------------------------------
\* Tags: events with several tags, a connection with and one without a grant
\* ------------------------------------------------------------------------

\* a reference of another kind, which does not start with '39002:'
RefOther == NumToStr(30023) \o Colon \o PkA \o Colon \o W("g")

\* the registration of RefAg and B's kind-1 events: e1 tagged to RefAg; e5
\* tagged to RefAh, then RefAg; e7 with an 'a' tag of another kind, then
\* RefAg; e8 with RefAg in an 'e' tag; e9 with an 'a' tag of no value, then
\* RefAg
TagEvents ==
  { e \in Events : e.id \in {W("r1"), W("e1"), W("e5")} }
  \cup
  { Ev("e7", PkB, 1, <<Tag2("a", RefOther), Tag2("a", RefAg)>>, TRUE),
    Ev("e8", PkB, 1, <<Tag2("e", RefAg)>>, TRUE),
    Ev("e9", PkB, 1, <<<<W("a")>>, Tag2("a", RefAg)>>, TRUE) }

\* q authenticates as B with an access grant for RefAg
TagAuths ==
  OnAuth(W("q"), Auth(PkB, AUTH_KIND, TRUE, CoreChallenge(W("q")), CapJson(TokenAccess)), 500)

TagPublishes ==
  \E s \in Sockets, e \in TagEvents : Fits(s, e, MaxStored) /\ OnEvent(s, e)

TagReqs == \E s \in Sockets, l \in SubIds : OnReq(s, l, <<Filter(TRUE, {})>>)

NextTags ==
  \/ Connects
  \/ TagAuths
  \/ TagPublishes
  \/ TagReqs
  \/ Disconnects
  \/ ClearEvents

SpecTags == Init /\ [][NextTags]_vars

\* ------------------------------------------------------------------------
\* Vocabulary of the properties
\* ------------------------------------------------------------------------

Open(socketId) == connections[socketId] # NoConn

Authenticated(socketId) == Open(socketId) /\ connections[socketId].pubkey # Null

\* the message a socket was sent at position i of the last handler's output
SentTo(i) == sent[i][1]

Msg(i) == sent[i][2]

IsEventMsg(i) == Msg(i)[1] = "EVENT"

\* the last handler answered socketId with ["OK", id, ok, reason]
Answered(socketId, id, ok) ==
  \E i \in 1..Len(sent) :
    SentTo(i) = socketId /\ Msg(i)[1] = "OK" /\ Msg(i)[2] = id /\ Msg(i)[3] = ok

\* the answer's reason
Reason(socketId, id) ==
  Msg(CHOOSE i \in 1..Len(sent) : SentTo(i) = socketId /\ Msg(i)[1] = "OK" /\ Msg(i)[2] = id)[4]

\* the event's commons reference: the value of its first 'a' tag that starts
\* with '39002:'; Undefined when it has none
CommonsOf(event) ==
  LET refs == SelectSeq(event.tags,
                        LAMBDA t : Len(t) >= 2 /\ t[1] = W("a") /\ StartsWith(t[2], CommonsPrefix))
  IN IF refs = <<>> THEN Undefined ELSE refs[1][2]

\* the second colon-delimited field of a commons reference
OwnerOf(ref) == Split(ref, ":")[2]

\* an event of an enforced commons
Restricted(event) == CommonsOf(event) \in enforcedCommons

\* ------------------------------------------------------------------------
\* Properties
\* ------------------------------------------------------------------------

\* C1: every ["EVENT", subId, e] a handler sends to a connection, in the replay
\* of a REQ or in the fan-out of a publish, is one the connection can read
\* under its identity and grants and the enforced set at the time of sending.
C1_DeliveredOnlyIfReadable ==
  \A i \in 1..Len(sent) : IsEventMsg(i) => canRead(SentTo(i), Msg(i)[3])

\* a publish to an enforced commons reached one subscriber and was withheld
\* from another whose filter matches
C1_Witness ==
  /\ last.op = "EVENT"
  /\ \E i \in 1..Len(sent) : IsEventMsg(i) /\ Restricted(Msg(i)[3])
  /\ \E j \in 1..Len(gsubs) :
       /\ matchFilters(gsubs[j].val.filters, last.arg)
       /\ ~canRead(gsubs[j].val.socketId, last.arg)

\* the last handler was the EVENT handler, and it accepted the event: it
\* answered OK=true and the store holds the event
Accepted(event) ==
  /\ last.op = "EVENT" /\ last.arg = event
  /\ Answered(last.socketId, event.id, TRUE)
  /\ MapHas(events, event.id)

\* the last handler was the EVENT handler, and it rejected the event
Rejected(event) ==
  /\ last.op = "EVENT" /\ last.arg = event
  /\ Answered(last.socketId, event.id, FALSE)

\* the same of the event the last handler ran on
LastAccepted == Accepted(last.arg)

LastRejected == Rejected(last.arg)

LastReason == Reason(last.socketId, last.arg.id)

LastOpen == Open(last.socketId)

\* the grant lets its holder publish events of this kind to the commons
PublishGrantFor(grant, kind, ref) ==
  /\ grant.action = W("publish")
  /\ grant.scope \in {Star, NumToStr(kind), W("kind") \o Colon \o NumToStr(kind)}
  /\ \/ grant.commons = Star
     \/ grant.commons = ref
     \/ /\ EndsWith(grant.commons, <<":", "*">>)
        /\ StartsWith(ref, SubSeq(grant.commons, 1, Len(grant.commons) - 1))

GrantsOf(socketId) == {connections[socketId].grants[i] : i \in 1..Len(connections[socketId].grants)}

\* B authenticated with the single grant {publish, 'kind:1', '39002:A:*'}
ScenarioB(socketId) ==
  /\ Open(socketId)
  /\ connections[socketId].pubkey = PkB
  /\ connections[socketId].grants =
       <<[action |-> W("publish"), scope |-> Kind1, commons |-> WildA]>>

EventById(id) == CHOOSE e \in Events : e.id = W(id)

\* C2: for an event of an enforced commons C whose author is not the owner
\* field of C, canWrite is ok exactly when the connection is authenticated, the
\* author is the authenticated identity, and some grant has action publish, a
\* scope '*', 'N' or 'kind:N' for the event's kind N, and a commons reference
\* '*', C, or a ':*' prefix of C.  With the single grant {publish, 'kind:1',
\* '39002:A:*'}, B's kind-1 event to '39002:A:g' is ok and its kind-2 event
\* is not.
C2_WriteNeedsPublishGrant ==
  /\ \A s \in Sockets, e \in Events :
       (Restricted(e) /\ e.pubkey # OwnerOf(CommonsOf(e)))
       => (canWrite(s, e).ok <=>
             /\ Authenticated(s)
             /\ e.pubkey = connections[s].pubkey
             /\ \E g \in GrantsOf(s) : PublishGrantFor(g, e.kind, CommonsOf(e)))
  /\ \A s \in Sockets :
       (ScenarioB(s) /\ RefAg \in enforcedCommons)
       => canWrite(s, EventById("e1")).ok /\ ~canWrite(s, EventById("e2")).ok

\* B, holding that single grant, had its kind-2 event to the enforced commons
\* rejected
C2_Witness ==
  /\ Rejected(EventById("e2"))
  /\ ScenarioB(last.socketId)
  /\ RefAg \in enforcedCommons

\* C3: once '39002:A:g' is enforced, a validly signed event of that commons
\* whose author is A is accepted on a connection in any authentication state,
\* and one whose author is B is rejected on an unauthenticated connection with
\* a reason that begins 'auth-required:'.
C3_OwnerWritesUnconditionally ==
  [][ (/\ last'.op = "EVENT"
       /\ RefAg \in enforcedCommons
       /\ verifyEvent(last'.arg)
       /\ CommonsOf(last'.arg) = RefAg)
      => /\ last'.arg.pubkey = PkA => LastAccepted'
         /\ (last'.arg.pubkey = PkB /\ ~Authenticated(last'.socketId))
            => LastRejected' /\ StartsWith(LastReason', <<"auth-required:">>)
    ]_vars

\* A's event to the enforced commons was accepted on a connection
\* authenticated as somebody else
C3_Witness ==
  /\ Accepted(EventById("e3"))
  /\ RefAg \in enforcedCommons
  /\ Authenticated(last.socketId)
  /\ connections[last.socketId].pubkey = PkB

\* C4: a validly signed event that has no commons reference, or whose commons
\* reference is not enforced, passes canWrite and canRead on every connection,
\* whatever its authentication and grants; sent as an EVENT message it is
\* accepted and stored.
C4_DefaultAllow ==
  /\ [](\A s \in Sockets, e \in Events :
          (verifyEvent(e) /\ ~Restricted(e)) => canWrite(s, e).ok /\ canRead(s, e))
  /\ [][ (last'.op = "EVENT" /\ verifyEvent(last'.arg) /\ ~Restricted(last'.arg))
         => LastAccepted' ]_vars

\* an unauthenticated connection published B's event to a commons that is
\* not registered
C4_Witness ==
  /\ Accepted(EventById("e1"))
  /\ ~Authenticated(last.socketId)
  /\ RefAg \notin enforcedCommons

\* C5: a commons reference in the enforced set stays in it across every
\* handler and the timer that clears the event store.
C5_EnforcementMonotonic == [][enforcedCommons \subseteq enforcedCommons']_vars

\* the timer cleared the store of a relay that enforces a commons
C5_Witness == last.op = "clear" /\ enforcedCommons # {}

\* the d tag of a registration event
DTagOf(event) ==
  LET ds == SelectSeq(event.tags, LAMBDA t : Len(t) >= 1 /\ t[1] = W("d"))
  IN IF ds = <<>> \/ Len(ds[1]) < 2 THEN <<>> ELSE ds[1][2]

\* C6: the enforced set is the set of references '39002:<author>:<d>' of the
\* accepted kind-39002 events with a non-empty d tag, so the owner field of
\* every enforced reference is the author of an accepted registration event.
C6_EnforcedAreAcceptedRegistrations ==
  /\ enforcedCommons =
       { <<"3", "9", "0", "0", "2", ":">> \o e.pubkey \o <<":">> \o DTagOf(e)
           : e \in {r \in registrations : DTagOf(r) # <<>>} }
  /\ \A c \in enforcedCommons : \E e \in registrations : OwnerOf(c) = e.pubkey
  /\ \A e \in registrations : e.kind = COMMONS_KIND /\ verifyEvent(e)

\* a registration with an empty d tag was accepted and a registration that
\* fails the write check was rejected, while two commons are enforced
C6_Witness ==
  /\ LastRejected /\ last.arg = EventById("r5")
  /\ EventById("r3") \in registrations
  /\ Cardinality(enforcedCommons) = 2

\* the last handler was the AUTH handler, and it answered OK=true / OK=false
AuthSucceeded == last.op = "AUTH" /\ Answered(last.socketId, last.arg.id, TRUE)

AuthFailed == last.op = "AUTH" /\ Answered(last.socketId, last.arg.id, FALSE)

TagsNamed(tags, name) == SelectSeq(tags, LAMBDA t : Len(t) >= 1 /\ t[1] = W(name))

\* the AUTH event carries a capability token: a cap tag with a non-empty value
CarriesToken(authEvent) ==
  /\ TagsNamed(authEvent.tags, "cap") # <<>>
  /\ TagsNamed(authEvent.tags, "cap")[1][2].form \notin {"undefined", "empty"}

\* the token, when the value of the cap tag is the JSON text of one
TokenParses(authEvent) == TagsNamed(authEvent.tags, "cap")[1][2].form = "json"

TokenOf(authEvent) == TagsNamed(authEvent.tags, "cap")[1][2].obj

\* the AUTH event answers this challenge
Answers(authEvent, challenge) ==
  /\ TagsNamed(authEvent.tags, "challenge") # <<>>
  /\ Len(TagsNamed(authEvent.tags, "challenge")[1]) >= 2
  /\ TagsNamed(authEvent.tags, "challenge")[1][2] = challenge

\* the token names this grantee in its p tag
GranteeIs(token, pubkey) ==
  /\ TagsNamed(token.tags, "p") # <<>>
  /\ Len(TagsNamed(token.tags, "p")[1]) >= 2
  /\ TagsNamed(token.tags, "p")[1][2] = pubkey

\* the grants a successful AUTH produces: none without a token, else one per
\* cap tag of the token, in order, each with the tag's action, its scope or
\* '*', and the token's commons reference or '*'
GrantsProduced(authEvent) ==
  IF ~CarriesToken(authEvent) THEN <<>>
  ELSE LET tags == TokenOf(authEvent).tags
           caps == TagsNamed(tags, "cap")
           ref == IF TagsNamed(tags, "a") = <<>> THEN <<"*">> ELSE TagsNamed(tags, "a")[1][2]
       IN [i \in 1..Len(caps) |->
             [action |-> caps[i][2],
              scope |-> IF Len(caps[i]) >= 3 THEN caps[i][3] ELSE <<"*">>,
              commons |-> ref]]

\* C7: the identity and grants of a connection are those the most recent
\* successful AUTH produced: a successful AUTH replaces both (with no grants
\* when it carries no token), and nothing else changes them while the
\* connection is open.
C7_GrantsOfLatestAuth ==
  [][ \A s \in Sockets :
        (Open(s) /\ Open(s)')
        => IF AuthSucceeded' /\ last'.socketId = s
           THEN /\ connections'[s].pubkey = last'.arg.pubkey
                /\ connections'[s].grants = GrantsProduced(last'.arg)
           ELSE /\ connections'[s].pubkey = connections[s].pubkey
                /\ connections'[s].grants = connections[s].grants
    ]_vars

\* a successful AUTH with the two-grant token left the connection with these
\* two grants
C7_Witness ==
  /\ AuthSucceeded
  /\ CarriesToken(last.arg)
  /\ Len(connections[last.socketId].grants) = 2

\* C8 as stated: after an AUTH that fails, the connection is registered and
\* unauthenticated, with no identity and no grants.
C8_FailedAuthUnauthenticates ==
  AuthFailed
  => /\ Open(last.socketId)
     /\ connections[last.socketId].pubkey = Null
     /\ connections[last.socketId].grants = <<>>

\* C8, amended: an AUTH that fails is answered with one OK=false that carries
\* a reason, and leaves the connection registered with the identity and
\* grants it had: unauthenticated if it was, else as the earlier AUTH left it.
C8_FailedAuthChangesNothing ==
  [][ (last'.op = "AUTH" /\ AuthFailed')
      => /\ LastOpen'
         /\ connections' = connections
         /\ Len(sent') = 1
         /\ LastReason' # <<>>
    ]_vars

\* an AUTH failed on a connection that stays authenticated with a grant
C8_Witness ==
  /\ AuthFailed
  /\ Authenticated(last.socketId)
  /\ connections[last.socketId].grants # <<>>

\* C9: an AUTH succeeds, and a connection takes an identity P, only through an
\* AUTH event of kind 22242 with a valid signature, by P, that answers the
\* challenge of that connection and whose token, if it carries one, has a
\* valid signature and the grantee P.
C9_AuthenticationSound ==
  /\ [](AuthSucceeded
        => /\ last.arg.kind = AUTH_KIND
           /\ verifyEvent(last.arg)
           /\ connections[last.socketId].pubkey = last.arg.pubkey
           /\ Answers(last.arg, connections[last.socketId].challenge)
           /\ CarriesToken(last.arg)
              => /\ TokenParses(last.arg)
                 /\ verifyEvent(TokenOf(last.arg))
                 /\ GranteeIs(TokenOf(last.arg), last.arg.pubkey))
  /\ [][ \A s \in Sockets :
           (/\ Authenticated(s)'
            /\ ~Open(s) \/ connections'[s].pubkey # connections[s].pubkey)
           => AuthSucceeded' /\ last'.socketId = s
       ]_vars

\* an AUTH with a token succeeded while another connection holds a different
\* challenge
C9_Witness ==
  /\ AuthSucceeded
  /\ CarriesToken(last.arg)
  /\ \E s \in Sockets :
       Open(s) /\ connections[s].challenge # connections[last.socketId].challenge

\* the AUTH event passes every check before the expiry check
ReachesExpiryCheck(authEvent, socketId) ==
  /\ authEvent.kind = AUTH_KIND
  /\ verifyEvent(authEvent)
  /\ Answers(authEvent, connections[socketId].challenge)
  /\ CarriesToken(authEvent)
  /\ TokenParses(authEvent)
  /\ verifyEvent(TokenOf(authEvent))
  /\ GranteeIs(TokenOf(authEvent), authEvent.pubkey)

ExpiryTags(authEvent) == TagsNamed(TokenOf(authEvent).tags, "expiry")

\* C10: a token whose expiry is a number of seconds below the current time
\* makes the AUTH fail with 'cap expired'; a token with no expiry tag, or with
\* an expiry at or after the current time, passes the expiry check.  The time
\* is last.now milliseconds.
C10_ExpiryCheck ==
  (last.op = "AUTH" /\ ReachesExpiryCheck(last.arg, last.socketId))
  => /\ ExpiryTags(last.arg) = <<>> => AuthSucceeded
     /\ \A k \in 0..MaxExpiry :
          (ExpiryTags(last.arg) # <<>> /\ ExpiryTags(last.arg)[1][2] = NumToStr(k))
          => IF k * 1000 < last.now
             THEN AuthFailed /\ LastReason = <<"cap expired">>
             ELSE AuthSucceeded

\* a token with expiry 0 failed the expiry check
C10_Witness ==
  /\ AuthFailed
  /\ ReachesExpiryCheck(last.arg, last.socketId)
  /\ ExpiryTags(last.arg) # <<>>
  /\ ExpiryTags(last.arg)[1][2] = <<"0">>
  /\ LastReason = <<"cap expired">>

\* the token's expiry tag holds the seconds k and k is before the time the
\* last handler read
TokenExpired(authEvent) ==
  /\ ExpiryTags(authEvent) # <<>>
  /\ \E k \in 0..MaxExpiry :
       ExpiryTags(authEvent)[1][2] = NumToStr(k) /\ k * 1000 < last.now

\* the reason of the first condition the AUTH event violates on a connection
\* with this challenge, in the order kind, signature, challenge, token text,
\* token signature, grantee, expiry: its leading text, or <<>> when no
\* condition is violated
FirstViolation(authEvent, challenge) ==
  IF authEvent.kind # 22242 THEN <<"invalid auth kind">>
  ELSE IF ~verifyEvent(authEvent) THEN <<"invalid auth signature">>
  ELSE IF ~Answers(authEvent, challenge) THEN <<"invalid or missing challenge">>
  ELSE IF ~CarriesToken(authEvent) THEN <<>>
  ELSE IF ~TokenParses(authEvent) THEN <<"invalid cap JSON">>
  ELSE IF ~verifyEvent(TokenOf(authEvent)) THEN <<"invalid cap signature">>
  ELSE IF ~GranteeIs(TokenOf(authEvent), authEvent.pubkey) THEN <<"grantee mismatch">>
  ELSE IF TokenExpired(authEvent) THEN <<"cap expired">>
  ELSE <<>>

\* the number of conditions among kind, signature and challenge the AUTH
\* event violates
ViolationsOf(authEvent, challenge) ==
  (IF authEvent.kind # 22242 THEN 1 ELSE 0)
  + (IF ~verifyEvent(authEvent) THEN 1 ELSE 0)
  + (IF ~Answers(authEvent, challenge) THEN 1 ELSE 0)

\* C11: an AUTH is answered OK=false with the reason of the first condition
\* it violates in the order kind, AUTH signature, challenge, token text, token
\* signature, grantee, expiry, and OK=true when it violates none; an AUTH of a
\* kind other than 22242 is answered 'invalid auth kind' whatever else it
\* carries.
C11_FirstViolationDecides ==
  last.op = "AUTH"
  => LET reason == FirstViolation(last.arg, connections[last.socketId].challenge)
     IN IF reason = <<>>
        THEN AuthSucceeded
        ELSE /\ AuthFailed
             /\ Len(sent) = 1
             /\ SubSeq(LastReason, 1, 1) = reason

\* an AUTH of another kind, with an invalid signature and no answer to the
\* challenge, was rejected for its kind
C11_Witness ==
  /\ AuthFailed
  /\ ViolationsOf(last.arg, connections[last.socketId].challenge) = 3
  /\ SubSeq(LastReason, 1, 1) = <<"invalid auth kind">>

\* C12: the step that opens a connection sends it one message, ['AUTH',
\* challenge] with the non-empty challenge stored for it; every other message
\* goes to a connection that was open before the step, and none of them is an
\* AUTH message.  So the challenge is the first message of a connection and
\* is sent once.
C12_ChallengeFirstAndOnce ==
  [][ \A s \in Sockets :
        /\ (~Open(s) /\ Open(s)')
           => /\ sent' = << <<s, <<"AUTH", connections'[s].challenge>>>> >>
              /\ connections'[s].challenge \notin {<<>>, Undefined, Null}
        /\ \A i \in 1..Len(sent') :
             sent'[i][1] = s
             => /\ Open(s)'
                /\ (sent'[i][2][1] = "AUTH") <=> ~Open(s)
    ]_vars

\* a connection opened while another holds a subscription and the store an
\* event, and was sent its challenge only
C12_Witness ==
  /\ last.op = "connect"
  /\ sent = << <<last.socketId, <<"AUTH", connections[last.socketId].challenge>>>> >>
  /\ gsubs # <<>>
  /\ events # <<>>

\* no filter of the list is null
WellFormed(filters) == \A i \in 1..Len(filters) : ~filters[i].null

\* one of the filters selects the event
Selects(filters, event) ==
  \E i \in 1..Len(filters) : filters[i].any \/ event.kind \in filters[i].kinds

\* the stored events a subscription of the connection is due, in store order
Due(socketId, filters) ==
  SelectSeq(events, LAMBDA en : Selects(filters, en.val) /\ canRead(socketId, en.val))

\* C13: a REQ with subscription id s is answered, to the requesting
\* connection only, with ['EVENT', s, e] for exactly the stored events e that
\* match its filters and that the connection can read, in store order, and then
\* one ['EOSE', s]; with no such event the answer is the EOSE alone.
C13_ReplayThenEose ==
  (last.op = "REQ" /\ WellFormed(last.arg[2]))
  => LET due == Due(last.socketId, last.arg[2])
     IN /\ Len(sent) = Len(due) + 1
        /\ \A i \in 1..Len(due) :
             sent[i] = <<last.socketId, <<"EVENT", last.arg[1], due[i].val>>>>
        /\ sent[Len(sent)] = <<last.socketId, <<"EOSE", last.arg[1]>>>>

\* a REQ on a store of several events was answered with all but the oldest,
\* in store order, and the EOSE: the oldest is withheld or does not match
C13_Witness ==
  /\ last.op = "REQ"
  /\ Len(events) >= 2
  /\ Len(sent) = Len(events)
  /\ \A i \in 2..Len(events) : sent[i - 1][2][3] = events[i].val

\* the entry of the global table is the subscription lsubid of socketId
Owned(entry, socketId, lsubid) ==
  entry.val.socketId = socketId /\ entry.val.lsubid = lsubid

\* the connection holds a subscription under this id
Live(socketId, lsubid) ==
  \E i \in 1..Len(gsubs) : Owned(gsubs[i], socketId, lsubid)

LocalIds == {W("x"), W("y")}

\* C14: an ['EVENT', s, ...] goes only to a connection that holds a
\* subscription s; a CLOSE of s by a connection removes that subscription and
\* no other, so subscriptions of other connections under the same id stay; and
\* a connection comes to hold a subscription s only by its own REQ with id s.
\* So after a CLOSE of s nothing is delivered under s until the next REQ.
C14_NoDeliveryAfterClose ==
  /\ [](\A i \in 1..Len(sent) : IsEventMsg(i) => Live(SentTo(i), Msg(i)[2]))
  /\ [][ \A s \in Sockets, l \in LocalIds :
           /\ (last'.op = "CLOSE" /\ last'.socketId = s /\ last'.arg = l)
              => /\ gsubs' = SelectSeq(gsubs, LAMBDA en : ~Owned(en, s, l))
                 /\ ~Live(s, l)'
           /\ (~Live(s, l) /\ Live(s, l)')
              => (last'.op = "REQ" /\ last'.socketId = s /\ last'.arg[1] = l)
       ]_vars

\* a connection closed its subscription x while it holds another and the
\* other connection holds one under the same id x
C14_Witness ==
  /\ last.op = "CLOSE"
  /\ last.arg = W("x")
  /\ \E i \in 1..Len(gsubs) : gsubs[i].val.socketId = last.socketId
  /\ \E s \in Sockets \ {last.socketId} : Live(s, W("x"))

\* C15: every subscription of the global table belongs to an open connection
\* and every EVENT message goes to an open connection; the close of a
\* connection removes its record and all its subscriptions from the global
\* table and leaves the subscriptions of the other connections as they were.
C15_DisconnectCascade ==
  /\ [](/\ \A i \in 1..Len(gsubs) : Open(gsubs[i].val.socketId)
        /\ \A i \in 1..Len(sent) : IsEventMsg(i) => Open(SentTo(i)))
  /\ [][ \A s \in Sockets :
           (last'.op = "disconnect" /\ last'.socketId = s)
           => /\ ~Open(s)'
              /\ gsubs' = SelectSeq(gsubs, LAMBDA en : en.val.socketId # s)
       ]_vars

\* a connection closed and the other connection still holds a subscription
C15_Witness ==
  /\ last.op = "disconnect"
  /\ ~Open(last.socketId)
  /\ \E s \in Sockets \ {last.socketId} : Live(s, W("x"))

\* the connection holds a subscription with a null filter
HoldsMalformed(socketId) ==
  \E i \in 1..Len(gsubs) :
    gsubs[i].val.socketId = socketId /\ ~WellFormed(gsubs[i].val.filters)

LastHoldsMalformed == HoldsMalformed(last.socketId)

\* the publisher of the last handler was answered OK=true
LastAnsweredOk == last.op = "EVENT" /\ Answered(last.socketId, last.arg.id, TRUE)

\* the event of the last handler was sent to every matching subscription, with
\* well-formed filters, of a connection that can read it
LastDelivered ==
  \A i \in 1..Len(gsubs) :
    (/\ WellFormed(gsubs[i].val.filters)
     /\ ~HoldsMalformed(gsubs[i].val.socketId)
     /\ Selects(gsubs[i].val.filters, last.arg)
     /\ canRead(gsubs[i].val.socketId, last.arg))
    => \E j \in 1..Len(sent) :
         sent[j] = <<gsubs[i].val.socketId, <<"EVENT", gsubs[i].val.lsubid, last.arg>>>>

\* C16: a malformed message of one connection does not affect the others: a
\* publish of a verified event that passes the write check, by a connection
\* that sent no malformed subscription, is answered with its OK and is
\* delivered to every matching, readable subscription of the connections that
\* sent none.
C16_MalformedInputIsolated ==
  [][ (/\ last'.op = "EVENT"
       /\ verifyEvent(last'.arg)
       /\ canWrite(last'.socketId, last'.arg).ok
       /\ ~LastHoldsMalformed')
      => (LastAnsweredOk' /\ LastDelivered')
    ]_vars

\* C17: an EVENT whose signature does not verify, or that the write check
\* denies, is answered with one OK=false, with the reason 'invalid: signature
\* verification failed' in the first case, and changes nothing: not the store,
\* the enforced set, the connections or the subscriptions, and no subscription
\* is sent the event.
C17_RejectedEventHasNoEffect ==
  [][ (/\ last'.op = "EVENT"
       /\ ~verifyEvent(last'.arg) \/ ~canWrite(last'.socketId, last'.arg).ok)
      => /\ LastRejected'
         /\ Len(sent') = 1
         /\ ~verifyEvent(last'.arg)
            => LastReason' = <<"invalid:", " signature verification failed">>
         /\ UNCHANGED <<events, enforcedCommons, registrations, connections, gsubs, lsubs>>
    ]_vars

\* the write check denied a verified commons registration while a
\* subscription matches it
C17_Witness ==
  /\ LastRejected
  /\ verifyEvent(last.arg)
  /\ last.arg.kind = COMMONS_KIND
  /\ \E i \in 1..Len(gsubs) : Selects(gsubs[i].val.filters, last.arg)
  /\ Len(sent) = 1

\* the messages of the last handler are one ['EVENT', subId, e] for every
\* subscription that matches the published event e and whose connection can
\* read it, and after them one OK=true to the publisher
LastFanOutComplete ==
  /\ Len(sent) >= 1
  /\ sent[Len(sent)] = <<last.socketId, <<"OK", last.arg.id, TRUE, <<>>>>>>
  /\ \A j \in 1..(Len(sent) - 1) : IsEventMsg(j)
  /\ \A i \in 1..Len(gsubs) :
       (/\ Selects(gsubs[i].val.filters, last.arg)
        /\ canRead(gsubs[i].val.socketId, last.arg))
       => Cardinality({ j \in 1..Len(sent) :
                          sent[j] = <<gsubs[i].val.socketId,
                                      <<"EVENT", gsubs[i].val.lsubid, last.arg>>>> }) = 1

\* C18: an accepted EVENT is sent once to every live subscription, of any
\* connection, whose filters match and whose connection can read it, before
\* the one OK=true to the publisher; and a connection holds at most one
\* subscription under a subscription id, a REQ with a live id replacing the
\* earlier one.
C18_FanOutComplete ==
  /\ [](\A i, j \in 1..Len(gsubs) :
          (/\ gsubs[i].val.socketId = gsubs[j].val.socketId
           /\ gsubs[i].val.lsubid = gsubs[j].val.lsubid) => i = j)
  /\ [][ (/\ last'.op = "EVENT"
          /\ verifyEvent(last'.arg)
          /\ canWrite(last'.socketId, last'.arg).ok)
         => LastFanOutComplete'
       ]_vars

\* the grant lets its holder read the commons: its action is access or
\* publish and its commons reference is '*', the commons, or a ':*' prefix of it
ReadGrantFor(grant, ref) ==
  /\ grant.action \in {W("access"), W("publish")}
  /\ \/ grant.commons = Star
     \/ grant.commons = ref
     \/ /\ EndsWith(grant.commons, <<":", "*">>)
        /\ StartsWith(ref, SubSeq(grant.commons, 1, Len(grant.commons) - 1))

\* the connection is authenticated as the owner of the event's commons and
\* holds no grant
OwnerWithoutToken(socketId, event) ==
  /\ Authenticated(socketId)
  /\ connections[socketId].pubkey = OwnerOf(CommonsOf(event))
  /\ connections[socketId].grants = <<>>

\* C19: for an event of an enforced commons C, canRead holds exactly when the
\* connection is authenticated and some grant of it has the action access or
\* publish and a commons reference matching C, whatever the grant's scope and
\* the event's kind; a connection authenticated as the owner of C with no
\* grant can write the owner's events to C and can read no event of C.
C19_ReadNeedsGrant ==
  \A s \in Sockets, e \in Events :
    Restricted(e)
    => /\ canRead(s, e) <=> /\ Authenticated(s)
                            /\ \E g \in GrantsOf(s) : ReadGrantFor(g, CommonsOf(e))
       /\ OwnerWithoutToken(s, e)
          => /\ ~canRead(s, e)
             /\ e.pubkey = OwnerOf(CommonsOf(e)) => canWrite(s, e).ok

\* the owner, authenticated with no token, published an event to its enforced
\* commons and cannot read it
C19_Witness ==
  /\ LastAccepted
  /\ Restricted(last.arg)
  /\ OwnerWithoutToken(last.socketId, last.arg)
  /\ ~canRead(last.socketId, last.arg)

\* the AUTH event would be answered OK=true on the connection at this time
WouldAccept(socketId, authEvent, nowMs) == handleAuth(socketId, authEvent, nowMs).ok

\* the AUTH event carries a token whose expiry, in seconds, is before this time
ExpiredAt(authEvent, nowMs) ==
  /\ CarriesToken(authEvent)
  /\ ExpiryTags(authEvent) # <<>>
  /\ \E k \in 0..MaxExpiry :
       ExpiryTags(authEvent)[1][2] = NumToStr(k) /\ k * 1000 < nowMs

\* a signed AUTH event with no token that answers the challenge
PlainAuth(challenge) == Auth(PkB, AUTH_KIND, TRUE, challenge, NoCapTag)

\* the challenge of a connection is the same from its opening to its close
ChallengeFixed ==
  [][ \A s \in Sockets :
        (Open(s) /\ Open(s)') => connections'[s].challenge = connections[s].challenge
    ]_vars

\* after an AUTH, accepted or not, an AUTH that answers the same challenge is
\* accepted
ChallengeStillValid ==
  last.op = "AUTH"
  => \A t \in Times :
       WouldAccept(last.socketId, PlainAuth(connections[last.socketId].challenge), t)

\* C20 as stated: the challenge of a connection never changes; after an AUTH,
\* accepted or not, an AUTH with the same challenge is accepted; and an AUTH
\* event that was accepted is accepted again on the same connection at any
\* later time.
C20_ReplayAlwaysAccepted ==
  /\ ChallengeFixed
  /\ [](ChallengeStillValid)
  /\ [](AuthSucceeded => \A t \in Times : WouldAccept(last.socketId, last.arg, t))

\* C20, amended: the challenge of a connection never changes; after an AUTH,
\* accepted or not, an AUTH with the same challenge is accepted; and an AUTH
\* event that was accepted is accepted again on the same connection at every
\* time at which its token, if it carries one, has not expired.
C20_ReplayAcceptedUntilExpiry ==
  /\ ChallengeFixed
  /\ [](ChallengeStillValid)
  /\ [](AuthSucceeded
        => \A t \in Times :
             ~ExpiredAt(last.arg, t) => WouldAccept(last.socketId, last.arg, t))

\* an AUTH with a token was accepted that would be accepted again now and
\* rejected at a later time, when the token has expired
C20_Witness ==
  /\ AuthSucceeded
  /\ \E t \in Times : ExpiredAt(last.arg, t) /\ ~WouldAccept(last.socketId, last.arg, t)
  /\ \E t \in Times : ~ExpiredAt(last.arg, t) /\ WouldAccept(last.socketId, last.arg, t)

\* the event with no tag but its commons reference, if it has one
OnlyCommonsRef(event) ==
  [event EXCEPT !.tags = IF CommonsOf(event) = Undefined THEN <<>>
                         ELSE <<Tag2("a", CommonsOf(event))>>]

\* B's event tagged to RefAh first and to RefAg second
TwoRefs == CHOOSE e \in TagEvents : e.id = W("e5")

\* RefAg is enforced and RefAh is not
SecondRefEnforced == RefAg \in enforcedCommons /\ RefAh \notin enforcedCommons

\* C21: canWrite and canRead decide on the value of the first 'a' tag that
\* starts with '39002:' and on no other tag: they give an event what they give
\* the event with that tag alone.  An event that refers to an unenforced
\* commons first and to an enforced commons second is unrestricted: every
\* connection can write and read it, the relay accepts it from an
\* unauthenticated connection, and sends it to every subscription.
C21_FirstCommonsTagDecides ==
  /\ \A s \in Sockets, e \in TagEvents :
       /\ canWrite(s, e).ok = canWrite(s, OnlyCommonsRef(e)).ok
       /\ canRead(s, e) = canRead(s, OnlyCommonsRef(e))
  /\ SecondRefEnforced
     => /\ \A s \in Sockets : canWrite(s, TwoRefs).ok /\ canRead(s, TwoRefs)
        /\ (last.op = "EVENT" /\ last.arg = TwoRefs)
           => /\ LastAccepted
              /\ \A i \in 1..Len(gsubs) :
                   \E j \in 1..Len(sent) :
                     sent[j] = <<gsubs[i].val.socketId,
                                 <<"EVENT", gsubs[i].val.lsubid, TwoRefs>>>>

\* an unauthenticated connection published B's event with the enforced
\* commons in its second reference, and it was sent to a subscription of a
\* connection with no grant, which cannot read B's event tagged to that commons
\* only
C21_Witness ==
  /\ LastAccepted
  /\ last.arg = TwoRefs
  /\ SecondRefEnforced
  /\ ~Authenticated(last.socketId)
  /\ \E j \in 1..Len(sent) :
       /\ IsEventMsg(j)
       /\ connections[SentTo(j)].grants = <<>>
       /\ ~canRead(SentTo(j), CHOOSE e \in TagEvents : e.id = W("e1"))

====
